---- MODULE Spec2Model ----
(***************************************************************************)
(* Model of eth_macd_strategy.py: the ROI/price conversion, the trailing   *)
(* stop, the position sizer, the plan builder, the normalizer, the signal  *)
(* scorer, the configuration validators and one cycle of main.             *)
(*                                                                         *)
(* Numbers.  The program computes in binary floating point; the model      *)
(* computes the same expressions exactly, on integers:                     *)
(*   - an ROI is a whole percent;                                          *)
(*   - an entry price is a whole number of quote units, and every price    *)
(*     derived from it (stop, trailing stop, take profit, and the entry    *)
(*     price stored in a TradePlan) is counted in 1/PriceScale of a quote  *)
(*     unit, PriceScale = 100 * LEVERAGE, so that                          *)
(*     entry * (1 +- roi / LEVERAGE / 100) is entry * (PriceScale +- roi); *)
(*   - a weight is counted in millionths, a score in 1/ScoreScale percent; *)
(*   - a normalized value and an RSI component are whole percents,         *)
(*     rounded down;                                                       *)
(*   - MACD deltas are counted in units of the default macd_delta_min      *)
(*     (0.01) and Bollinger widths in units of the default                 *)
(*     bb_min_expansion (0.5), so both defaults are 1.                     *)
(* None and NaN are two numbers no modelled quantity takes.                *)
(***************************************************************************)
EXTENDS Integers, Sequences, FiniteSets, TLC

VARIABLES
    pc,                  \* position of the modelled run
    side,                \* "long" | "short" | "none"
    entry_price,         \* entry price, quote units
    inputs,              \* StrategyInputs
    trailing,            \* TrailingStopConfig
    balance_usdt,        \* account balance
    position_percent,    \* KUCOIN_POSITION_SIZE_PERCENT
    plan,                \* TradePlan or NoPlan
    peak_roi,            \* peak ROI given to the last compute_trailing_stop call
    max_peak,            \* largest peak ROI given to any call so far
    stop_price,          \* result of the last compute_trailing_stop call
    prev_stop,           \* current_stop_price given to that call (None when absent)
    size_result,         \* outcome of the last determine_position_size call
    series,              \* the series given to normalize_series
    lookback,            \* its lookback argument
    norm_result,         \* the value normalize_series returned
    indicators,          \* the indicator snapshot of the cycle, or NoIndicators
    score_state,         \* the score breakdown determine_signal returned
    candles,             \* number of bars fetch_candles returned, or None
    execute_trades,      \* KUCOIN_EXECUTE_TRADES
    orders,              \* the orders created on the exchange, in order
    error,               \* the exception that left main uncaught, or "none"
    log                  \* what main logged, in order

callVars == <<side, entry_price, inputs, trailing, balance_usdt, position_percent>>
trailVars == <<peak_roi, max_peak, stop_price, prev_stop>>
sizeVars == <<size_result>>
normVars == <<series, lookback, norm_result>>
signalVars == <<indicators, score_state>>
mainVars == <<candles, execute_trades, orders, error, log>>

vars == <<pc, callVars, plan, trailVars, sizeVars, normVars, signalVars, mainVars>>

----------------------------------------------------------------------------
(* Constants of the program *)

LEVERAGE == 100
CONTRACT_MULTIPLIER == 1

\* Python's None (an absent current_stop_price, an absent plan)
None == -999999

\* an undefined float (pandas' NaN): every comparison with it is false
NaN == -888888

\* math.isclose's default rel_tol is 1e-09; this is its inverse
IsCloseRelTolInv == 1000000000

\* weights are counted in 1/WeightScale (the validator's tolerance of 1e-6);
\* a score, weight x component, with components in tenths of a percent, is
\* counted in 1/ScoreScale of a percent
WeightScale == 1000000
ScoreScale == 10 * WeightScale

\* prices are counted in 1/PriceScale of a quote unit
PriceScale == 100 * LEVERAGE

Max2(a, b) == IF a >= b THEN a ELSE b
Min2(a, b) == IF a <= b THEN a ELSE b
Abs(a) == IF a >= 0 THEN a ELSE -a

\* float comparisons: false as soon as an operand is NaN
Gt(a, b) == a # NaN /\ b # NaN /\ a > b
Lt(a, b) == a # NaN /\ b # NaN /\ a < b
Ge(a, b) == a # NaN /\ b # NaN /\ a >= b
Le(a, b) == a # NaN /\ b # NaN /\ a <= b

\* math.isclose(a, b): abs(a - b) <= rel_tol * max(abs(a), abs(b)), abs_tol = 0
\* (on whole numbers d <= m / 10^9 iff d <= m \div 10^9)
isclose(a, b) ==
    /\ a # NaN /\ b # NaN
    /\ Abs(a - b) <= Max2(Abs(a), Abs(b)) \div IsCloseRelTolInv

\* python's max(low, min(high, value)): a NaN value loses both comparisons
clamp(value, low, high) ==
    LET inner == IF Lt(value, high) THEN value ELSE high
    IN  IF Gt(inner, low) THEN inner ELSE low

\* Series.tail(n): the last n entries
tail(xs, n) == IF Len(xs) <= n THEN xs ELSE SubSeq(xs, Len(xs) - n + 1, Len(xs))

\* Series.min() / Series.max(): NaN entries are skipped; NaN when none is left
Defined(xs) == {xs[i] : i \in {j \in 1 .. Len(xs) : xs[j] # NaN}}
series_min(xs) ==
    IF Defined(xs) = {} THEN NaN
    ELSE CHOOSE v \in Defined(xs) : \A w \in Defined(xs) : v <= w
series_max(xs) ==
    IF Defined(xs) = {} THEN NaN
    ELSE CHOOSE v \in Defined(xs) : \A w \in Defined(xs) : v >= w

\* (current - low) / (high - low) * 100 in whole percent (rounded down)
RatioPercent(current, low, high) ==
    IF current = NaN \/ low = NaN \/ high = NaN THEN NaN
    ELSE ((current - low) * 100) \div (high - low)

normalize_series_whole(xs, n) ==
    IF Len(xs) = 0 THEN 0
    ELSE LET low == series_min(xs)
             high == series_max(xs)
         IN  IF isclose(low, high) THEN 0
             ELSE clamp(RatioPercent(xs[Len(xs)], low, high), 0, 100)

normalize_series(xs, n) ==
    IF Len(xs) = 0 THEN 0
    ELSE LET window == tail(xs, n)
             low == series_min(window)
             high == series_max(window)
         IN  IF isclose(low, high) THEN 0
             ELSE clamp(RatioPercent(xs[Len(xs)], low, high), 0, 100)

----------------------------------------------------------------------------
(* Configuration *)

DefaultInputs ==
    [fast_length |-> 9, slow_length |-> 23, signal_length |-> 5,
     macd_delta_min |-> 1, bb_min_expansion |-> 1,
     bars_to_kill |-> 30, min_profit_roi |-> 1,
     normalization_lookback |-> 200,
     weight_macd |-> 450000, weight_bb |-> 350000, weight_rsi |-> 200000,
     strength_threshold |-> "Medium",
     use_trend_filter |-> TRUE, use_volume_filter |-> FALSE,
     volume_ma_length |-> 50]

DefaultTrailing == [start_roi |-> 10, step_roi |-> 8, stop_loss_roi |-> 9]

\* StrategyInputs.validate: TRUE iff it raises (ValueError)
InputsValidateRaises_no_sum(ins) ==
    \/ \E v \in {ins.fast_length, ins.slow_length, ins.signal_length, ins.bars_to_kill,
                  ins.normalization_lookback, ins.volume_ma_length} : v < 1
    \/ ins.macd_delta_min < 0 \/ ins.bb_min_expansion < 0
    \/ ~(0 <= ins.weight_macd /\ ins.weight_macd <= WeightScale)
    \/ ~(0 <= ins.weight_bb /\ ins.weight_bb <= WeightScale)
    \/ ~(0 <= ins.weight_rsi /\ ins.weight_rsi <= WeightScale)

InputsValidateRaises(ins) ==
    \/ \E v \in {ins.fast_length, ins.slow_length, ins.signal_length, ins.bars_to_kill,
                  ins.normalization_lookback, ins.volume_ma_length} : v < 1
    \/ ins.macd_delta_min < 0 \/ ins.bb_min_expansion < 0
    \/ ~(0 <= ins.weight_macd /\ ins.weight_macd <= WeightScale)
    \/ ~(0 <= ins.weight_bb /\ ins.weight_bb <= WeightScale)
    \/ ~(0 <= ins.weight_rsi /\ ins.weight_rsi <= WeightScale)
    \/ LET total_weight == ins.weight_macd + ins.weight_bb + ins.weight_rsi
       IN  \* not math.isclose(total_weight, 1.0, rel_tol=1e-6)
           ~(Abs(total_weight - WeightScale)
               <= Max2(Abs(total_weight), WeightScale) \div WeightScale)

\* TrailingStopConfig.validate: TRUE iff it raises
TrailingValidateRaises(config) ==
    config.start_roi <= 0 \/ config.step_roi <= 0 \/ config.stop_loss_roi <= 0

----------------------------------------------------------------------------
(* Helper functions *)

pct_to_price(s, entry, roi_percent) ==
    IF s = "long" THEN entry * (PriceScale + roi_percent)
                  ELSE entry * (PriceScale - roi_percent)

compute_trailing_stop_no_ratchet(s, entry, peak, config, current_stop_price) ==
    LET static == pct_to_price(s, entry, -config.stop_loss_roi)
    IN  IF peak >= config.start_roi
        THEN LET trailing_price == pct_to_price(s, entry, Max2(0, peak - config.step_roi))
             IN  IF s = "long" THEN Max2(static, trailing_price)
                               ELSE Min2(static, trailing_price)
        ELSE static

compute_trailing_stop_always_active(s, entry, peak, config, current_stop_price) ==
    LET static == pct_to_price(s, entry, -config.stop_loss_roi)
        trailing_price == pct_to_price(s, entry, Max2(0, peak - config.step_roi))
        candidate == IF s = "long" THEN Max2(static, trailing_price)
                                   ELSE Min2(static, trailing_price)
    IN  IF current_stop_price # None
        THEN IF s = "long" THEN Max2(candidate, current_stop_price)
                           ELSE Min2(candidate, current_stop_price)
        ELSE candidate

compute_trailing_stop_late(s, entry, peak, config, current_stop_price) ==
    LET static == pct_to_price(s, entry, -config.stop_loss_roi)
        candidate ==
            IF peak > config.start_roi
            THEN LET trailing_price == pct_to_price(s, entry, Max2(0, peak - config.step_roi))
                 IN  IF s = "long" THEN Max2(static, trailing_price)
                                   ELSE Min2(static, trailing_price)
            ELSE static
    IN  IF current_stop_price # None
        THEN IF s = "long" THEN Max2(candidate, current_stop_price)
                           ELSE Min2(candidate, current_stop_price)
        ELSE candidate

compute_trailing_stop_no_floor(s, entry, peak, config, current_stop_price) ==
    LET static == pct_to_price(s, entry, -config.stop_loss_roi)
        candidate ==
            IF peak >= config.start_roi
            THEN LET trailing_price == pct_to_price(s, entry, peak - config.step_roi)
                 IN  IF s = "long" THEN Max2(static, trailing_price)
                                   ELSE Min2(static, trailing_price)
            ELSE static
    IN  IF current_stop_price # None
        THEN IF s = "long" THEN Max2(candidate, current_stop_price)
                           ELSE Min2(candidate, current_stop_price)
        ELSE candidate

compute_trailing_stop(s, entry, peak, config, current_stop_price) ==
    LET static == pct_to_price(s, entry, -config.stop_loss_roi)
        candidate ==
            IF peak >= config.start_roi
            THEN LET target_roi == Max2(0, peak - config.step_roi)
                     trailing_price == pct_to_price(s, entry, target_roi)
                 IN  IF s = "long" THEN Max2(static, trailing_price)
                                   ELSE Min2(static, trailing_price)
            ELSE static
    IN  IF current_stop_price # None
        THEN IF s = "long" THEN Max2(candidate, current_stop_price)
                           ELSE Min2(candidate, current_stop_price)
        ELSE candidate

\* Series.abs(), Series.diff(), Series.clip(lower=0), -Series.clip(upper=0)
series_abs(xs) ==
    [i \in 1 .. Len(xs) |-> IF xs[i] = NaN THEN NaN ELSE Abs(xs[i])]
series_diff(xs) ==
    [i \in 1 .. Len(xs) |->
        IF i = 1 THEN NaN
        ELSE IF xs[i] = NaN \/ xs[i - 1] = NaN THEN NaN ELSE xs[i] - xs[i - 1]]
clip_lower0(xs) ==
    [i \in 1 .. Len(xs) |-> IF xs[i] = NaN THEN NaN ELSE Max2(xs[i], 0)]
neg_clip_upper0(xs) ==
    [i \in 1 .. Len(xs) |-> IF xs[i] = NaN THEN NaN ELSE -Min2(xs[i], 0)]

NoIndicators == [close |-> None]
NoScore == [reason |-> "not scored"]

\* thresholds.get(strength_threshold, thresholds["Medium"])
required_score(ins) ==
    CASE ins.strength_threshold = "Weak" -> 60 * ScoreScale
      [] ins.strength_threshold = "Medium" -> 75 * ScoreScale
      [] ins.strength_threshold = "Strong" -> 83 * ScoreScale
      [] OTHER -> 75 * ScoreScale

crossed_above(ind) ==
    Le(ind.delta_series[Len(ind.delta_series) - 1], 0) /\ Gt(ind.macd_delta, 0)
crossed_below(ind) ==
    Ge(ind.delta_series[Len(ind.delta_series) - 1], 0) /\ Lt(ind.macd_delta, 0)

base_long_no_expansion(ind, ins) ==
    crossed_above(ind) /\ Gt(ind.macd_delta, ins.macd_delta_min)

base_long(ind, ins) ==
    /\ crossed_above(ind)
    /\ Gt(ind.macd_delta, ins.macd_delta_min)
    /\ Gt(ind.bb_width, ins.bb_min_expansion)

base_short(ind, ins) ==
    /\ crossed_below(ind)
    /\ Lt(ind.macd_delta, -ins.macd_delta_min)
    /\ Gt(ind.bb_width, ins.bb_min_expansion)

trend_ok_long_unfiltered(ind, ins) == TRUE

trend_ok_long(ind, ins) ==
    (~ins.use_trend_filter) \/ Gt(ind.fast_ema, ind.slow_ema)
trend_ok_short(ind, ins) ==
    (~ins.use_trend_filter) \/ Lt(ind.fast_ema, ind.slow_ema)

volume_ok(ind, ins) ==
    (~ins.use_volume_filter) \/ Gt(ind.volume, ind.vol_ma)

\* the components and the weighted scores (lines 229-239)
score_components(ind, ins) ==
    LET n == ins.normalization_lookback
        ddiff == series_diff(ind.delta_series)
        macd_mag == normalize_series(series_abs(ind.delta_series), n)
        macd_imp_pos == normalize_series(clip_lower0(ddiff), n)
        macd_imp_neg == normalize_series(neg_clip_upper0(ddiff), n)
        macd_comp_long == 7 * macd_mag + 3 * macd_imp_pos
        macd_comp_short == 7 * macd_mag + 3 * macd_imp_neg
        bb_comp == 10 * normalize_series(ind.bb_width_series, n)
        rsi_comp_long == 10 * clamp((100 * (70 - ind.rsi)) \div 40, 0, 100)
        rsi_comp_short == 10 * clamp((100 * (ind.rsi - 30)) \div 40, 0, 100)
    IN  [score_long |-> ins.weight_macd * macd_comp_long + ins.weight_bb * bb_comp
                          + ins.weight_rsi * rsi_comp_long,
         score_short |-> ins.weight_macd * macd_comp_short + ins.weight_bb * bb_comp
                          + ins.weight_rsi * rsi_comp_short,
         required |-> required_score(ins),
         macd_component_long |-> macd_comp_long,
         macd_component_short |-> macd_comp_short,
         bb_component |-> bb_comp,
         rsi_component_long |-> rsi_comp_long,
         rsi_component_short |-> rsi_comp_short]

determine_signal(ind, ins) ==
    IF Len(ind.delta_series) < 2
    THEN [side |-> "none",
          score_state |-> [reason |-> "insufficient data for MACD crossover"]]
    ELSE LET st == score_components(ind, ins)
             strength_ok_long == st.score_long >= st.required
             strength_ok_short == st.score_short >= st.required
         IN  [side |->
                 IF base_long(ind, ins) /\ trend_ok_long(ind, ins)
                    /\ volume_ok(ind, ins) /\ strength_ok_long
                 THEN "long"
                 ELSE IF base_short(ind, ins) /\ trend_ok_short(ind, ins)
                         /\ volume_ok(ind, ins) /\ strength_ok_short
                      THEN "short"
                      ELSE "none",
              score_state |-> st]

\* window of the Bollinger bands (closes.rolling(window=20))
BBWindow == 20

\* compute_indicators on n bars.  The bars themselves are not modelled: the
\* values are drawn, and what the code fixes about them is kept:
\*   - every series has one entry per bar;
\*   - the first MACD delta is 0 (each EMA is seeded with the first close);
\*   - macd_delta and bb_width are the last entries of their series;
\*   - the Bollinger width is NaN on the first BBWindow - 1 bars;
\*   - vol_ma is NaN on fewer than volume_ma_length bars;
\*   - the RSI is never NaN (fillna(50)).
\* d_prev, d_last: the last two deltas; w_prev, w_last: the Bollinger widths
\* before the last bar and on it.
snapshot(n, ins, d_prev, d_last, w_prev, w_last, rsi, fast_ema, vol_ma) ==
    LET delta == [i \in 1 .. n |-> IF i = 1 THEN 0
                                   ELSE IF i = n THEN d_last
                                   ELSE IF i = n - 1 THEN d_prev ELSE 0]
        bb == [i \in 1 .. n |-> IF i < BBWindow THEN NaN
                                ELSE IF i = n THEN w_last ELSE w_prev]
    IN  [close |-> 2000,
         fast_ema |-> fast_ema,
         slow_ema |-> 2000,
         macd_delta |-> delta[n],
         bb_width |-> bb[n],
         rsi |-> rsi,
         volume |-> 1200,
         vol_ma |-> IF n < ins.volume_ma_length THEN NaN ELSE vol_ma,
         delta_series |-> delta,
         bb_width_series |-> bb]

\* A call that returns v, or raises the exception err
Returned(v) == [raised |-> FALSE, value |-> v, error |-> "none"]
Raised(err) == [raised |-> TRUE, value |-> None, error |-> err]

determine_position_size_unchecked(balance, entry, percent) ==
    Returned(Max2((balance * percent * LEVERAGE)
                    \div (100 * entry * CONTRACT_MULTIPLIER), 1))

determine_position_size_no_floor(balance, entry, percent) ==
    IF balance <= 0
    THEN Raised("ValueError")
    ELSE Returned((balance * percent * LEVERAGE)
                    \div (100 * entry * CONTRACT_MULTIPLIER))

\* margin_used = balance * (percent / 100); position_value = margin_used * leverage;
\* size = floor(position_value / (entry * multiplier)); at least 1
determine_position_size(balance, entry, percent) ==
    IF balance <= 0
    THEN Raised("ValueError")
    ELSE Returned(Max2((balance * percent * LEVERAGE)
                         \div (100 * entry * CONTRACT_MULTIPLIER), 1))

NoPlan == [side |-> "none"]

\* TradePlan; prices in 1/PriceScale quote units; timestamp_ms (wall clock) left out
build_trade_plan(s, entry, ins, config, balance, percent) ==
    LET stop_loss_price == pct_to_price(s, entry, -config.stop_loss_roi)
        trailing_stop_price == compute_trailing_stop(s, entry, 0, config, stop_loss_price)
        take_profit_price == pct_to_price(s, entry, ins.min_profit_roi)
        size == determine_position_size(balance, entry, percent)
    IN  IF size.raised
        THEN Raised(size.error)
        ELSE Returned([side |-> s,
                       entry_price |-> entry * PriceScale,
                       stop_loss_price |-> stop_loss_price,
                       trailing_stop_price |-> trailing_stop_price,
                       take_profit_price |-> take_profit_price,
                       size |-> size.value,
                       peak_roi |-> 0])

----------------------------------------------------------------------------
(* SpecPlan: a plan is built for a fired signal (or the trailing stop is    *)
(* asked for directly, without a previous stop), and the trailing stop is   *)
(* then recomputed tick after tick, each call fed the previous result.      *)

Sides == {"long", "short"}
EntryPrices == {2000, 1850}
PeakRois == {0, 5, 10, 18, 26}
StartRois == {10, 4, 0}
StepRois == {8, 3}
StopLossRois == {9, 2}
MinProfitRois == {1, 0, -2}
Balances == {5000, 0}

TrailingConfigs ==
    [start_roi : StartRois, step_roi : StepRois, stop_loss_roi : StopLossRois]

\* the parts of the state a specification does not use stay as constructed
TrailIdle == peak_roi = 0 /\ max_peak = 0 /\ stop_price = None /\ prev_stop = None
SizeIdle == size_result = Returned(None)
NormIdle == series = <<>> /\ lookback = 1 /\ norm_result = None
SignalIdle == indicators = NoIndicators /\ score_state = NoScore
MainIdle ==
    /\ candles = None /\ execute_trades = FALSE
    /\ orders = <<>> /\ error = "none" /\ log = <<>>
CallIdle ==
    /\ side = "none" /\ entry_price = 2000
    /\ inputs = DefaultInputs /\ trailing = DefaultTrailing
    /\ balance_usdt = 0 /\ position_percent = 1

PlanInit ==
    /\ pc = "new"
    /\ side \in Sides
    /\ entry_price \in EntryPrices
    /\ inputs \in {[DefaultInputs EXCEPT !.min_profit_roi = r] : r \in MinProfitRois}
    /\ trailing \in {c \in TrailingConfigs : ~TrailingValidateRaises(c)}
    /\ balance_usdt \in Balances
    /\ position_percent = 1
    /\ plan = NoPlan
    /\ TrailIdle
    /\ SizeIdle
    /\ NormIdle
    /\ SignalIdle
    /\ MainIdle

\* build_trade_plan for the fired side; a sizing error leaves no plan
PlanBuild ==
    /\ pc = "new"
    /\ LET r == build_trade_plan(side, entry_price, inputs, trailing,
                                 balance_usdt, position_percent)
       IN  IF r.raised
           THEN /\ pc' = "raised"
                /\ UNCHANGED <<plan, stop_price, prev_stop>>
           ELSE /\ pc' = "open"
                /\ plan' = r.value
                /\ stop_price' = r.value.trailing_stop_price
                /\ prev_stop' = r.value.stop_loss_price
    /\ UNCHANGED <<callVars, peak_roi, max_peak, sizeVars, normVars, signalVars, mainVars>>

\* compute_trailing_stop called without current_stop_price
TrailFirst ==
    /\ pc = "new"
    /\ \E peak \in PeakRois :
         /\ peak_roi' = peak
         /\ max_peak' = peak
         /\ stop_price' = compute_trailing_stop(side, entry_price, peak, trailing, None)
    /\ prev_stop' = None
    /\ pc' = "open"
    /\ UNCHANGED <<callVars, plan, sizeVars, normVars, signalVars, mainVars>>

\* compute_trailing_stop called with the previous call's result
TrailTick ==
    /\ pc = "open"
    /\ \E peak \in PeakRois :
         /\ peak_roi' = peak
         /\ max_peak' = Max2(max_peak, peak)
         /\ stop_price' = compute_trailing_stop(side, entry_price, peak, trailing, stop_price)
    /\ prev_stop' = stop_price
    /\ pc' = "open"
    /\ UNCHANGED <<callVars, plan, sizeVars, normVars, signalVars, mainVars>>

PlanNext == PlanBuild \/ TrailFirst \/ TrailTick

SpecPlan == PlanInit /\ [][PlanNext]_vars

----------------------------------------------------------------------------
(* Claims on the trailing stop *)

\* C1: a call of compute_trailing_stop that is given a previous stop never
\* returns a stop that moved against the position, whatever the peak ROI:
\* long, the result is >= the previous stop; short, it is <= the previous stop.
C1_Ratchet ==
    [][(pc = "open" /\ pc' = "open") =>
          /\ (side = "long" => stop_price' >= stop_price)
          /\ (side # "long" => stop_price' <= stop_price)]_vars

\* the ratchet decided the result: the peak fell back and the stop was kept
C1_Witness ==
    /\ pc = "open" /\ side = "long"
    /\ prev_stop # None /\ peak_roi < max_peak
    /\ stop_price = prev_stop
    /\ stop_price > pct_to_price(side, entry_price, -trailing.stop_loss_roi)

\* C2: as long as no call has seen a peak ROI of start_roi or more, the stop
\* is exactly the static price at -stop_loss_roi; the trailing stop of a
\* freshly built plan is its stop-loss price.
C2_StaticBeforeStart ==
    /\ (pc = "open" /\ max_peak < trailing.start_roi) =>
          stop_price = pct_to_price(side, entry_price, -trailing.stop_loss_roi)
    /\ plan # NoPlan =>
          /\ plan.peak_roi = 0
          /\ plan.trailing_stop_price = plan.stop_loss_price
          /\ plan.stop_loss_price = pct_to_price(side, entry_price, -trailing.stop_loss_roi)

C2_Witness ==
    /\ pc = "open" /\ plan # NoPlan
    /\ prev_stop # None /\ peak_roi = 5 /\ max_peak = 5
    /\ trailing.start_roi = 10

\* C3: a call with peak_roi >= start_roi returns the more favourable of the
\* price at ROI max(0, peak_roi - step_roi) and the static cap (and of the
\* previous stop when one is given).  start 10, step 8, stop loss 9, entry 2000,
\* long: peak 10 gives the price at ROI 2, then peak 26 the price at ROI 18.
C3_TrailsPeak ==
    /\ (pc = "open" /\ peak_roi >= trailing.start_roi) =>
          LET gap == IF peak_roi - trailing.step_roi > 0
                     THEN peak_roi - trailing.step_roi ELSE 0
              level == IF side = "long" THEN entry_price * (PriceScale + gap)
                                        ELSE entry_price * (PriceScale - gap)
              cap == IF side = "long"
                     THEN entry_price * (PriceScale - trailing.stop_loss_roi)
                     ELSE entry_price * (PriceScale + trailing.stop_loss_roi)
          IN  IF side = "long"
              THEN /\ stop_price >= level /\ stop_price >= cap
                   /\ stop_price \in {level, cap, prev_stop}
                   /\ prev_stop = None => stop_price = Max2(level, cap)
              ELSE /\ stop_price <= level /\ stop_price <= cap
                   /\ stop_price \in {level, cap, prev_stop}
                   /\ prev_stop = None => stop_price = Min2(level, cap)
    /\ (/\ pc = "open" /\ side = "long" /\ entry_price = 2000
        /\ trailing = [start_roi |-> 10, step_roi |-> 8, stop_loss_roi |-> 9]) =>
          /\ (peak_roi = 10 /\ prev_stop = None) => stop_price = 20004000
          /\ (peak_roi = 26 /\ prev_stop = 20004000) => stop_price = 20036000

C3_Witness ==
    /\ pc = "open" /\ side = "long" /\ entry_price = 2000
    /\ trailing = [start_roi |-> 10, step_roi |-> 8, stop_loss_roi |-> 9]
    /\ peak_roi = 26 /\ prev_stop = 20004000 /\ stop_price = 20036000

\* C4: every plan build_trade_plan returns is ordered: long,
\* stop loss < entry < take profit; short, take profit < entry < stop loss.
C4_PriceOrdering ==
    plan # NoPlan =>
        IF plan.side = "long"
        THEN plan.stop_loss_price < plan.entry_price
             /\ plan.entry_price < plan.take_profit_price
        ELSE plan.take_profit_price < plan.entry_price
             /\ plan.entry_price < plan.stop_loss_price

\* C11: once a call has been given a peak ROI of start_roi or more, its
\* result and that of every later call fed the previous result is never on
\* the losing side of the entry price (long: stop >= entry; short:
\* stop <= entry), whatever peak ROI the later calls are given.
C11_BreakEvenLock ==
    (pc = "open" /\ max_peak >= trailing.start_roi) =>
        IF side = "long" THEN stop_price >= entry_price * PriceScale
                         ELSE stop_price <= entry_price * PriceScale

\* activated below step_roi, so the stop sits exactly at the entry price,
\* and kept there by a later call whose peak ROI fell back under start_roi
C11_Witness ==
    /\ pc = "open" /\ side = "short"
    /\ max_peak >= trailing.start_roi /\ max_peak < trailing.step_roi
    /\ peak_roi < trailing.start_roi /\ prev_stop # None
    /\ stop_price = entry_price * PriceScale

\* activated well above step_roi: the stop is locked in profit
C11_WitnessProfit ==
    /\ pc = "open" /\ side = "long" /\ max_peak = 26 /\ peak_roi = 0
    /\ stop_price > entry_price * PriceScale

----------------------------------------------------------------------------
(* SpecSize: determine_position_size on drawn arguments *)

MaxBalanceK == 5
SizeBalances == {k * 1000 : k \in -1 .. MaxBalanceK}
SizeEntryPrices == {2000, 1850, 300, 7}
SizePercents == {1, 2, 3}

SizeInit ==
    /\ pc = "new"
    /\ side = "long"
    /\ entry_price \in SizeEntryPrices
    /\ inputs = DefaultInputs
    /\ trailing = DefaultTrailing
    /\ balance_usdt \in SizeBalances
    /\ position_percent \in SizePercents
    /\ plan = NoPlan
    /\ TrailIdle
    /\ SizeIdle
    /\ NormIdle
    /\ SignalIdle
    /\ MainIdle

SizeCall ==
    /\ pc = "new"
    /\ size_result' = determine_position_size(balance_usdt, entry_price, position_percent)
    /\ pc' = "sized"
    /\ UNCHANGED <<callVars, plan, trailVars, normVars, signalVars, mainVars>>

SizeNext == SizeCall

SpecSize == SizeInit /\ [][SizeNext]_vars

C7_WitnessMinimum ==
    /\ pc = "sized" /\ balance_usdt = 1000 /\ position_percent = 1
    /\ entry_price = 2000 /\ size_result.value = 1

----------------------------------------------------------------------------
(* SpecNorm: normalize_series on drawn series.  A series is a base level    *)
(* plus small offsets, so that windows both far from flat and flat within   *)
(* isclose's relative tolerance occur; entries of a low series may be NaN.  *)

MaxSeriesLen == 3
MaxOffset == 3
HighBase == 1000000000
Lookbacks == {1, 2, 3, 200}

SeqsUpTo(S, n) == UNION {[1 .. k -> S] : k \in 0 .. n}

NormSeries ==
    SeqsUpTo((0 .. MaxOffset) \cup {NaN}, MaxSeriesLen)
        \cup SeqsUpTo({HighBase + k : k \in 0 .. MaxOffset - 1}, MaxSeriesLen)

NormInit ==
    /\ pc = "new"
    /\ CallIdle
    /\ plan = NoPlan
    /\ TrailIdle
    /\ SizeIdle
    /\ SignalIdle
    /\ series \in NormSeries
    /\ lookback \in Lookbacks
    /\ norm_result = None
    /\ MainIdle

NormCall ==
    /\ pc = "new"
    /\ norm_result' = normalize_series(series, lookback)
    /\ pc' = "normalized"
    /\ UNCHANGED <<callVars, plan, trailVars, sizeVars, series, lookback, signalVars,
                   mainVars>>

NormNext == NormCall

SpecNorm == NormInit /\ [][NormNext]_vars

\* the trailing window of the series, and its ends, read off the positions
WindowAt == {i \in 1 .. Len(series) : i > Len(series) - lookback}
AllDefined == \A i \in 1 .. Len(series) : series[i] # NaN
StrictlyIncreasing == \A i \in 1 .. Len(series) - 1 : series[i] < series[i + 1]
Current == series[Len(series)]

\* the result is (Current - lo) / (hi - lo) * 100, to the whole percent
IsRatio(r, lo, hi) ==
    /\ r * (hi - lo) <= 100 * (Current - lo)
    /\ 100 * (Current - lo) < (r + 1) * (hi - lo)

\* C10 as stated: in [0,100]; 0 on an empty series; 0 when the window's
\* max equals its min; 100 on a strictly increasing series; otherwise
\* (current - min) / (max - min) * 100 over the trailing lookback entries.
C10_AsStated ==
    (pc = "normalized" /\ AllDefined) =>
        /\ norm_result >= 0 /\ norm_result <= 100
        /\ Len(series) = 0 => norm_result = 0
        /\ Len(series) > 0 =>
              \E lo \in {series[i] : i \in WindowAt}, hi \in {series[i] : i \in WindowAt} :
                  /\ \A i \in WindowAt : lo <= series[i] /\ series[i] <= hi
                  /\ IF hi = lo THEN norm_result = 0
                     ELSE /\ StrictlyIncreasing => norm_result = 100
                          /\ IsRatio(norm_result, lo, hi)

\* C10, amended: flat means max and min within relative tolerance 1e-9
C10_Normalize ==
    pc = "normalized" =>
        /\ norm_result >= 0 /\ norm_result <= 100
        /\ Len(series) = 0 => norm_result = 0
        /\ (Len(series) > 0 /\ AllDefined) =>
              \E lo \in {series[i] : i \in WindowAt}, hi \in {series[i] : i \in WindowAt} :
                  /\ \A i \in WindowAt : lo <= series[i] /\ series[i] <= hi
                  /\ IF hi - lo <= Max2(Abs(hi), Abs(lo)) \div IsCloseRelTolInv
                     THEN norm_result = 0
                     ELSE /\ Current = hi => norm_result = 100
                          /\ IsRatio(norm_result, lo, hi)

\* a strictly increasing window that is flat within the tolerance
C10_Witness ==
    /\ pc = "normalized" /\ series = <<HighBase, HighBase + 1>>
    /\ lookback = 2 /\ norm_result = 0

\* a latest value strictly between the ends of its window
C10_WitnessRatio ==
    /\ pc = "normalized" /\ series = <<0, 3, 1>>
    /\ lookback = 3 /\ norm_result = 33

----------------------------------------------------------------------------
(* SpecSignal: determine_signal on the snapshots compute_indicators can     *)
(* produce, under configurations that pass validation.                      *)

MaxShortBars == 3
MaxBarsOver == 1
BarCounts == (1 .. MaxShortBars) \cup (BBWindow - 1 .. BBWindow + MaxBarsOver)

Deltas == {-2, -1, 1, 2}
PrevDeltas == {-2, 0, 2}
Widths == {0, 2}
PrevWidths == {1, 3}
Rsis == {30, 50, 80}
FastEmas == {1999, 2000, 2001}
VolMas == {1000, 1500}

Snapshots(ins) ==
    {snapshot(n, ins, dp, dl, wp, wl, r, f, v) :
        n \in BarCounts, dp \in PrevDeltas, dl \in Deltas, wp \in PrevWidths,
        wl \in Widths, r \in Rsis, f \in FastEmas, v \in VolMas}

SignalInputs ==
    {[DefaultInputs EXCEPT !.use_trend_filter = t, !.use_volume_filter = v,
                           !.strength_threshold = th, !.volume_ma_length = m,
                           !.normalization_lookback = k] :
        t \in BOOLEAN, v \in BOOLEAN, th \in {"Weak", "Strong", "Custom"},
        m \in {20, 50}, k \in {2, 200}}

SignalInit ==
    /\ pc = "new"
    /\ side = "none" /\ entry_price = 2000
    /\ inputs \in SignalInputs
    /\ trailing = DefaultTrailing
    /\ balance_usdt = 0 /\ position_percent = 1
    /\ plan = NoPlan
    /\ TrailIdle
    /\ SizeIdle
    /\ NormIdle
    /\ indicators \in Snapshots(inputs)
    /\ score_state = NoScore
    /\ MainIdle

SignalCall ==
    /\ pc = "new"
    /\ LET r == determine_signal(indicators, inputs)
       IN  side' = r.side /\ score_state' = r.score_state
    /\ pc' = "scored"
    /\ UNCHANGED <<entry_price, inputs, trailing, balance_usdt, position_percent,
                   plan, trailVars, sizeVars, normVars, indicators, mainVars>>

SignalNext == SignalCall

SpecSignal == SignalInit /\ [][SignalNext]_vars

\* the conditions of each side, read off the snapshot and the returned scores
Bars == Len(indicators.delta_series)
Defd(x) == x # NaN
GatesPass(dir) ==
    /\ inputs.use_trend_filter =>
          /\ Defd(indicators.fast_ema) /\ Defd(indicators.slow_ema)
          /\ dir * (indicators.fast_ema - indicators.slow_ema) > 0
    /\ inputs.use_volume_filter =>
          /\ Defd(indicators.vol_ma) /\ indicators.volume > indicators.vol_ma
BasePasses(dir) ==
    /\ dir * indicators.delta_series[Bars - 1] <= 0
    /\ dir * indicators.macd_delta > 0
    /\ dir * indicators.macd_delta > inputs.macd_delta_min
    /\ Defd(indicators.bb_width) /\ indicators.bb_width > inputs.bb_min_expansion
TierScore ==
    IF inputs.strength_threshold = "Weak" THEN 60
    ELSE IF inputs.strength_threshold = "Strong" THEN 83 ELSE 75
LongPasses ==
    /\ Bars >= 2 /\ BasePasses(1) /\ GatesPass(1)
    /\ score_state.score_long >= TierScore * ScoreScale
ShortPasses ==
    /\ Bars >= 2 /\ BasePasses(-1) /\ GatesPass(-1)
    /\ score_state.score_short >= TierScore * ScoreScale

\* C5: the side is long exactly when the long base condition, the trend
\* gate, the volume gate and the strength gate all pass (a disabled gate
\* passes), short exactly when the short ones do and long does not, and
\* none otherwise.
C5_SignalGates ==
    pc = "scored" =>
        /\ side \in {"long", "short", "none"}
        /\ side = "long" <=> LongPasses
        /\ side = "short" <=> (ShortPasses /\ ~LongPasses)

\* a long that fired with the trend filter on, and one with both gates off
C5_Witness ==
    /\ pc = "scored" /\ side = "long"
    /\ inputs.use_trend_filter /\ inputs.use_volume_filter

C5_WitnessShort ==
    /\ pc = "scored" /\ side = "short"
    /\ ~inputs.use_trend_filter /\ ~inputs.use_volume_filter
    /\ indicators.fast_ema > indicators.slow_ema

C5_WitnessBlocked ==
    /\ pc = "scored" /\ side = "none" /\ Bars >= 2 /\ BasePasses(1)
    /\ score_state.score_long >= score_state.required
    /\ inputs.use_trend_filter /\ indicators.fast_ema <= indicators.slow_ema

----------------------------------------------------------------------------
(* Spec: one cycle of main.  The configuration is drawn (valid ones and     *)
(* ones breaking each rule of the validators); the exchange's answers       *)
(* (clients, candles, balance, orders) are drawn at each call.              *)

InvalidInputs ==
    {[DefaultInputs EXCEPT !.fast_length = 0],
     [DefaultInputs EXCEPT !.slow_length = 0],
     [DefaultInputs EXCEPT !.signal_length = -1],
     [DefaultInputs EXCEPT !.bars_to_kill = 0],
     [DefaultInputs EXCEPT !.normalization_lookback = 0],
     [DefaultInputs EXCEPT !.volume_ma_length = 0],
     [DefaultInputs EXCEPT !.macd_delta_min = -1],
     [DefaultInputs EXCEPT !.bb_min_expansion = -1],
     [DefaultInputs EXCEPT !.weight_macd = -1, !.weight_rsi = 650001],
     [DefaultInputs EXCEPT !.weight_bb = WeightScale + 1, !.weight_macd = 0,
                           !.weight_rsi = 0],
     [DefaultInputs EXCEPT !.weight_rsi = 200002],
     [DefaultInputs EXCEPT !.weight_rsi = 199998],
     [DefaultInputs EXCEPT !.weight_rsi = 0]}

\* weights that sum to 1 within the tolerance
TolerableInputs ==
    {[DefaultInputs EXCEPT !.weight_rsi = 200001],
     [DefaultInputs EXCEPT !.weight_rsi = 199999]}

MainInputs ==
    {[DefaultInputs EXCEPT !.use_trend_filter = t, !.use_volume_filter = v,
                           !.strength_threshold = th, !.volume_ma_length = m] :
        t \in BOOLEAN, v \in BOOLEAN, th \in {"Weak", "Medium"}, m \in {20, 50}}
      \cup TolerableInputs \cup InvalidInputs

MainTrailing ==
    {DefaultTrailing,
     [DefaultTrailing EXCEPT !.start_roi = 0],
     [DefaultTrailing EXCEPT !.step_roi = -1],
     [DefaultTrailing EXCEPT !.stop_loss_roi = 0]}

FetchedBalances == {0, 1000, 5000}

Init ==
    /\ pc = "start"
    /\ side = "none"
    /\ entry_price = None
    /\ inputs \in MainInputs
    /\ trailing \in MainTrailing
    /\ balance_usdt = None
    /\ position_percent = 1
    /\ plan = NoPlan
    /\ TrailIdle
    /\ SizeIdle
    /\ NormIdle
    /\ SignalIdle
    /\ candles = None
    /\ execute_trades \in BOOLEAN
    /\ orders = <<>>
    /\ error = "none"
    /\ log = <<>>

idleVars == <<trailVars, sizeVars, normVars>>

\* inputs.validate(); trailing.validate(): a ValueError leaves main
Validate ==
    /\ pc = "start"
    /\ IF InputsValidateRaises(inputs) \/ TrailingValidateRaises(trailing)
       THEN pc' = "raised" /\ error' = "ValueError"
       ELSE pc' = "validated" /\ error' = error
    /\ UNCHANGED <<callVars, plan, idleVars, signalVars, candles, execute_trades,
                   orders, log>>

\* build_clients: missing credentials are logged and end the cycle
BuildClients ==
    /\ pc = "validated"
    /\ \E ok \in BOOLEAN :
         IF ok THEN pc' = "clients" /\ log' = log
               ELSE pc' = "returned"
                    /\ log' = Append(log, "Failed to initialize KuCoin clients")
    /\ UNCHANGED <<callVars, plan, idleVars, signalVars, candles, execute_trades,
                   orders, error>>

\* fetch_candles: no data or an exchange error is logged and ends the cycle
FetchCandles ==
    /\ pc = "clients"
    /\ \/ /\ \E n \in BarCounts : candles' = n
          /\ pc' = "candles" /\ log' = log
       \/ /\ pc' = "returned" /\ candles' = candles
          /\ log' = Append(log, "Failed to fetch candles")
    /\ UNCHANGED <<callVars, plan, idleVars, signalVars, execute_trades, orders, error>>

\* compute_indicators and determine_signal; no side ends the cycle.  Neither
\* call raises on the snapshots modelled, so the except branch (log, return)
\* has no transition.
ComputeAndScore ==
    /\ pc = "candles"
    /\ \E ind \in {snapshot(candles, inputs, dp, dl, wp, wl, r, f, v) :
                      dp \in PrevDeltas, dl \in Deltas, wp \in PrevWidths,
                      wl \in Widths, r \in Rsis, f \in FastEmas, v \in VolMas} :
         LET r == determine_signal(ind, inputs)
         IN  /\ indicators' = ind
             /\ side' = r.side
             /\ score_state' = r.score_state
             /\ IF r.side = "none"
                THEN pc' = "returned" /\ log' = Append(log, "No actionable signal")
                ELSE pc' = "signal" /\ log' = log
    /\ UNCHANGED <<entry_price, inputs, trailing, balance_usdt, position_percent,
                   plan, idleVars, candles, execute_trades, orders, error>>

\* fetch_account_balance; a failure is logged and the balance defaults to 0
FetchBalance ==
    /\ pc = "signal"
    /\ \/ /\ balance_usdt' \in FetchedBalances
          /\ log' = log
       \/ /\ balance_usdt' = 0
          /\ log' = Append(log, "Unable to fetch account balance, defaulting to 0")
    /\ pc' = "balance"
    /\ UNCHANGED <<side, entry_price, inputs, trailing, position_percent, plan,
                   idleVars, signalVars, candles, execute_trades, orders, error>>

\* build_trade_plan at the last close, outside any try: its error leaves main
BuildPlan ==
    /\ pc = "balance"
    /\ entry_price' = indicators.close
    /\ LET r == build_trade_plan(side, indicators.close, inputs, trailing,
                                 balance_usdt, position_percent)
       IN  IF r.raised
           THEN pc' = "raised" /\ error' = r.error /\ plan' = plan /\ log' = log
           ELSE /\ pc' = "planned" /\ error' = error /\ plan' = r.value
                /\ log' = log \o <<"Signal detected", "Score state", "Trade plan">>
    /\ UNCHANGED <<side, inputs, trailing, balance_usdt, position_percent,
                   idleVars, signalVars, candles, execute_trades, orders>>

\* round(price, 2): to the nearest hundredth of a quote unit, that is to the
\* nearest multiple of PriceScale / 100, a tie going to the even hundredth
round2(price) ==
    LET cent == PriceScale \div 100
        low == price \div cent
        rest == price % cent
    IN  IF 2 * rest < cent THEN low * cent
        ELSE IF 2 * rest > cent THEN (low + 1) * cent
        ELSE IF low % 2 = 0 THEN low * cent ELSE (low + 1) * cent

\* the three orders of a plan, in the order submit_orders creates them
PlanOrders(p) ==
    LET entry_side == IF p.side = "long" THEN "buy" ELSE "sell"
        stop_side == IF p.side = "long" THEN "sell" ELSE "buy"
        stop == IF p.side = "long" THEN "down" ELSE "up"
    IN  <<[kind |-> "market", side |-> entry_side, size |-> p.size],
          [kind |-> "stop", side |-> stop_side, stop |-> stop,
           stopPrice |-> round2(p.stop_loss_price), size |-> p.size],
          [kind |-> "stop", side |-> stop_side, stop |-> stop,
           stopPrice |-> round2(p.take_profit_price), size |-> p.size]>>

submit_orders_ignoring_dry_run(p, execute, done) ==
    SubSeq(PlanOrders(p), 1, done)

\* the orders submit_orders has created when done of its calls succeeded
submit_orders(p, execute, done) ==
    IF ~execute THEN <<>> ELSE SubSeq(PlanOrders(p), 1, done)

\* submit_orders: a dry run creates nothing; otherwise entry, stop loss and
\* take profit are created in turn, and the first call that fails raises,
\* which main logs; done is the number of calls that succeeded
SubmitOrders ==
    /\ pc = "planned"
    /\ \E done \in 0 .. 3 :
          /\ orders' = submit_orders(plan, execute_trades, done)
          /\ log' = IF ~execute_trades THEN Append(log, "Dry run enabled")
                    ELSE IF done = 3 THEN Append(log, "Take-profit order placed")
                    ELSE Append(log, "Order submission failed")
    /\ pc' = "returned"
    /\ UNCHANGED <<callVars, plan, idleVars, signalVars, candles, execute_trades, error>>

Next ==
    \/ Validate
    \/ BuildClients
    \/ FetchCandles
    \/ ComputeAndScore
    \/ FetchBalance
    \/ BuildPlan
    \/ SubmitOrders

Spec == Init /\ [][Next]_vars

----------------------------------------------------------------------------
(* Claims on the cycle *)

Scored == indicators # NoIndicators
InsufficientReason == [reason |-> "insufficient data for MACD crossover"]

C6_WitnessOneBar ==
    /\ pc = "returned" /\ candles = 1 /\ score_state = InsufficientReason

C6_WitnessVolume ==
    /\ pc = "returned" /\ Scored /\ candles >= BBWindow
    /\ inputs.use_volume_filter /\ indicators.vol_ma = NaN
    /\ BasePasses(1) /\ indicators.fast_ema > indicators.slow_ema
    /\ score_state.score_long >= score_state.required
    /\ side = "none"

\* C8: with a balance <= 0 (fetched, or defaulted to 0 when the fetch
\* failed) build_trade_plan fails: no plan, no order, and the ValueError
\* leaves main uncaught.
BalanceKnown == pc \in {"balance", "planned", "raised", "returned"} /\ balance_usdt # None
C8_NoPlanWithoutBalance ==
    (BalanceKnown /\ balance_usdt <= 0) =>
        /\ plan = NoPlan /\ orders = <<>>
        /\ pc \in {"balance", "raised"}
        /\ pc = "raised" => error = "ValueError"

C8_Witness ==
    /\ pc = "raised" /\ error = "ValueError" /\ side = "long"
    /\ balance_usdt = 0 /\ execute_trades
    /\ log = <<"Unable to fetch account balance, defaulting to 0">>

\* C9: a configuration that breaks a rule (a length < 1, a weight outside
\* [0,1], weights not summing to 1 within 1e-6, a negative threshold, a
\* non-positive trailing parameter) is rejected with a ValueError before
\* anything is fetched, computed, scored or planned.
ConfigValid ==
    /\ inputs.fast_length >= 1 /\ inputs.slow_length >= 1
    /\ inputs.signal_length >= 1 /\ inputs.bars_to_kill >= 1
    /\ inputs.normalization_lookback >= 1 /\ inputs.volume_ma_length >= 1
    /\ inputs.macd_delta_min >= 0 /\ inputs.bb_min_expansion >= 0
    /\ \A w \in {inputs.weight_macd, inputs.weight_bb, inputs.weight_rsi} :
          w >= 0 /\ w <= WeightScale
    /\ inputs.weight_macd + inputs.weight_bb + inputs.weight_rsi
          \in {WeightScale - 1, WeightScale, WeightScale + 1}
    /\ trailing.start_roi > 0 /\ trailing.step_roi > 0 /\ trailing.stop_loss_roi > 0

C9_InvalidConfigRejected ==
    ~ConfigValid =>
        /\ pc \in {"start", "raised"}
        /\ pc = "raised" => error = "ValueError"
        /\ candles = None /\ indicators = NoIndicators /\ score_state = NoScore
        /\ side = "none" /\ plan = NoPlan /\ orders = <<>>

\* weights that miss 1 by 2e-6 are rejected
C9_Witness ==
    /\ pc = "raised" /\ error = "ValueError"
    /\ inputs.weight_macd + inputs.weight_bb + inputs.weight_rsi = WeightScale + 2
    /\ trailing = DefaultTrailing

\* C12: an order exists only if a side fired, a plan was built and the
\* execute flag is set (a dry run creates none); the orders created are the
\* entry market order, then the stop loss, then the take profit, and a call
\* that fails leaves the later ones uncreated.
Cent == PriceScale \div 100
IsEntryOrder(o) ==
    /\ o.kind = "market" /\ o.size = plan.size
    /\ o.side = (IF side = "long" THEN "buy" ELSE "sell")
IsExitOrder(o, price) ==
    /\ o.kind = "stop" /\ o.size = plan.size
    /\ o.side = (IF side = "long" THEN "sell" ELSE "buy")
    /\ 2 * o.stopPrice <= 2 * price + Cent /\ 2 * o.stopPrice >= 2 * price - Cent
C12_OrderSafety ==
    /\ orders # <<>> =>
          /\ side \in {"long", "short"}
          /\ plan # NoPlan /\ plan.side = side
          /\ execute_trades
          /\ pc = "returned" /\ error = "none"
    /\ Len(orders) <= 3
    /\ Len(orders) >= 1 => IsEntryOrder(orders[1])
    /\ Len(orders) >= 2 => IsExitOrder(orders[2], plan.stop_loss_price)
    /\ Len(orders) >= 3 => IsExitOrder(orders[3], plan.take_profit_price)
    /\ (pc = "returned" /\ plan # NoPlan /\ execute_trades /\ Len(orders) < 3) =>
          log[Len(log)] = "Order submission failed"
    /\ (pc = "returned" /\ plan # NoPlan /\ ~execute_trades) =>
          orders = <<>> /\ log[Len(log)] = "Dry run enabled"

\* all three orders of a short plan
C12_Witness ==
    /\ pc = "returned" /\ side = "short" /\ execute_trades /\ Len(orders) = 3
    /\ orders[1].side = "sell" /\ orders[2].side = "buy"
    /\ orders[2].stopPrice > plan.entry_price /\ orders[3].stopPrice < plan.entry_price

\* the stop-loss call failed: the entry order stands alone
C12_WitnessFailure ==
    /\ pc = "returned" /\ side = "long" /\ execute_trades /\ Len(orders) = 1
    /\ log[Len(log)] = "Order submission failed"

\* a dry run of a fired signal
C12_WitnessDryRun ==
    /\ pc = "returned" /\ plan # NoPlan /\ ~execute_trades /\ orders = <<>>

====
